---- MODULE Spec2Model ----
(***************************************************************************)
(* Model of upload.py: the MARC21 link-field registration pipeline.        *)
(*                                                                         *)
(* Text that the program parses (sizes, control numbers, URIs) is a        *)
(* sequence of one-character strings, so that int(), str.split() and       *)
(* urlparse() are computed character by character.  Text that is only     *)
(* compared for equality (indicator, media type) is a TLA+ string.         *)
(* A Python value that may be None is a sequence of length 0 or 1.         *)
(***************************************************************************)
EXTENDS Integers, Sequences, FiniteSets, TLC

VARIABLES
    env,            \* which family of documents the collection URLs serve
    logging_freq,   \* args.logging_freq: None or Some(int)
    collections,    \* args.collections: the collection URLs, in order
    ci,             \* number of collections the outer loop has started
    file_fields,    \* the list the inner loop iterates
    fi,             \* number of fields the inner loop has completed
    pc,             \* "collections" | "fields" | "done" | "fatal"
    fatal,          \* the uncaught exception that ended the run, or "none"
    fetched,        \* what the last document fetch produced
    total_size,     \* line 196
    total_count,    \* line 197
    requests,       \* POSTs issued while in the current collection
    responses,      \* their outcomes: Some(status), or None for an exception
    errors,         \* logging.error records written in the current collection
    judged,         \* eligibility decisions taken in the current collection
    n201,           \* POSTs of the whole run answered 201
    sum201,         \* sum of the declared sizes of the fields answered 201
    progress,       \* the "Registered k files" lines printed, as the k's
    summary         \* the final two lines: None or Some(<<count, size>>)

vars == <<env, logging_freq, collections, ci, file_fields, fi, pc, fatal,
          fetched, total_size, total_count, requests, responses, errors,
          judged, n201, sum201, progress, summary>>

-----------------------------------------------------------------------------
(* Bounds *)

MaxCollections == 2
MaxFields == 2
MaxTypes == 2
MaxUriTail == 3

-----------------------------------------------------------------------------
(* Python values *)

None == <<>>
Some(x) == <<x>>

PyTrue == "True"
PyFalse == "False"
PyNone == "None"

\* truth value of what register_file returns (True, False, or no value)
Truthy(v) == v = PyTrue

\* all sequences over S of length at most n
RECURSIVE SeqsUpTo(_, _)
SeqsUpTo(S, n) ==
    IF n = 0 THEN {<<>>}
    ELSE LET shorter == SeqsUpTo(S, n - 1)
         IN shorter \cup {Append(s, x) : s \in {t \in shorter : Len(t) = n - 1}, x \in S}

Contains(s, c) == \E k \in 1..Len(s) : s[k] = c

\* str.find(c, start): the first index >= start holding c, or 0 when there is none
Find(s, c, start) ==
    IF \E k \in start..Len(s) : s[k] = c
    THEN CHOOSE k \in start..Len(s) : s[k] = c /\ \A j \in start..(k - 1) : s[j] # c
    ELSE 0

\* str.rfind(c): the last index holding c, or 0
RFind(s, c) ==
    IF Contains(s, c)
    THEN CHOOSE k \in 1..Len(s) : s[k] = c /\ \A j \in (k + 1)..Len(s) : s[j] # c
    ELSE 0

\* str.split(sep): the segments between the separators
RECURSIVE Split(_, _)
Split(s, sep) ==
    LET i == Find(s, sep, 1)
    IN IF i = 0 THEN <<s>>
       ELSE <<SubSeq(s, 1, i - 1)>> \o Split(SubSeq(s, i + 1, Len(s)), sep)

-----------------------------------------------------------------------------
(* Constants of the program *)

ELECTRONIC_LOCATION_AND_ACCESS == "856"
HTTP_ACCESS_METHOD == "4"
ACCEPTED_TYPES == <<"MP4", "MKV", "MOV">>
CREATED == 201

\* `x in list`
InList(x, list) == \E k \in 1..Len(list) : list[k] = x

-----------------------------------------------------------------------------
(* int(text) *)

DigitChars == {"0", "1", "5"}

DigitValue(c) == CASE c = "0" -> 0 [] c = "1" -> 1 [] c = "5" -> 5

RECURSIVE DigitsValue(_)
DigitsValue(s) ==
    IF s = <<>> THEN 0
    ELSE 10 * DigitsValue(SubSeq(s, 1, Len(s) - 1)) + DigitValue(s[Len(s)])

IsDigits(s) == s # <<>> /\ \A k \in 1..Len(s) : s[k] \in DigitChars

\* int() accepts an optional sign followed by decimal digits
IsIntLiteral(s) ==
    IF s # <<>> /\ s[1] \in {"+", "-"} THEN IsDigits(Tail(s)) ELSE IsDigits(s)

int(s) ==
    IF ~IsIntLiteral(s) THEN [raised |-> TRUE, exc |-> "ValueError", value |-> None]
    ELSE [raised |-> FALSE, exc |-> "none",
          value |-> Some(IF s[1] = "-" THEN 0 - DigitsValue(Tail(s))
                         ELSE IF s[1] = "+" THEN DigitsValue(Tail(s))
                         ELSE DigitsValue(s))]

-----------------------------------------------------------------------------
(* urlparse(text) *)

Letters == {"a", "e", "h", "l", "p", "s", "t", "x"}
SchemeChars == Letters \cup DigitChars \cup {"+", "-", "."}

uses_params ==
    { <<>>, <<"f","t","p">>, <<"h","d","l">>, <<"p","r","o","s","p","e","r","o">>,
      <<"h","t","t","p">>, <<"i","m","a","p">>, <<"h","t","t","p","s">>,
      <<"s","h","t","t","p">>, <<"r","t","s","p">>, <<"r","t","s","p","s">>,
      <<"r","t","s","p","u">>, <<"s","i","p">>, <<"s","i","p","s">>,
      <<"m","m","s">>, <<"s","f","t","p">>, <<"t","e","l">> }

\* urlsplit: the scheme is what precedes the first ':' when that is a letter
\* followed by scheme characters only
SplitScheme(url) ==
    LET i == Find(url, ":", 1)
    IN IF i > 1 /\ url[1] \in Letters /\ \A k \in 1..(i - 1) : url[k] \in SchemeChars
       THEN [scheme |-> SubSeq(url, 1, i - 1), rest |-> SubSeq(url, i + 1, Len(url))]
       ELSE [scheme |-> <<>>, rest |-> url]

\* _splitnetloc(url, 2): the authority runs to the first of '/', '?', '#'
SplitNetloc(url) ==
    IF Len(url) >= 2 /\ url[1] = "/" /\ url[2] = "/"
    THEN LET ends == {k \in 3..Len(url) : url[k] \in {"/", "?", "#"}}
             delim == IF ends = {} THEN Len(url) + 1
                      ELSE CHOOSE k \in ends : \A j \in ends : k <= j
         IN [netloc |-> SubSeq(url, 3, delim - 1), rest |-> SubSeq(url, delim, Len(url))]
    ELSE [netloc |-> <<>>, rest |-> url]

\* url.split(c, 1)[0]
Before(url, c) ==
    LET i == Find(url, c, 1) IN IF i = 0 THEN url ELSE SubSeq(url, 1, i - 1)

\* _splitparams(url)[0]
SplitParams(url) ==
    LET i == IF Contains(url, "/") THEN Find(url, ";", RFind(url, "/"))
             ELSE Find(url, ";", 1)
    IN IF i = 0 THEN url ELSE SubSeq(url, 1, i - 1)

urlparse(url) ==
    LET s == SplitScheme(url)
        n == SplitNetloc(s.rest)
        p == Before(Before(n.rest, "#"), "?")
    IN IF Contains(n.netloc, "[") # Contains(n.netloc, "]")
       THEN [raised |-> TRUE, scheme |-> <<>>, path |-> <<>>]
       ELSE [raised |-> FALSE, scheme |-> s.scheme,
             path |-> IF s.scheme \in uses_params /\ Contains(p, ";")
                      THEN SplitParams(p) ELSE p]

-----------------------------------------------------------------------------
(* strip_server_url and register_file *)

path_or_input_always_path(storage_file_id, parsed_url) ==
    IF parsed_url.raised THEN [raised |-> TRUE, value |-> None]
    ELSE [raised |-> FALSE, value |-> Some(parsed_url.path)]

\* lines 102-105
path_or_input(storage_file_id, parsed_url) ==
    IF parsed_url.raised THEN [raised |-> TRUE, value |-> None]
    ELSE IF parsed_url.scheme # <<>>
         THEN [raised |-> FALSE, value |-> Some(parsed_url.path)]
         ELSE [raised |-> FALSE, value |-> storage_file_id]

strip_server_url_always_path(storage_file_id) ==
    IF storage_file_id = None THEN [raised |-> FALSE, value |-> None]
    ELSE path_or_input_always_path(storage_file_id, urlparse(storage_file_id[1]))

\* urlparse(None) yields an empty scheme, so None is returned as it is
strip_server_url(storage_file_id) ==
    IF storage_file_id = None THEN [raised |-> FALSE, value |-> None]
    ELSE path_or_input(storage_file_id, urlparse(storage_file_id[1]))

\* what the server or the transport answers to one POST
Responses == {Some(CREATED), Some(403), Some(500), None}

Payload(storage_file_id, destination, size, checksum) ==
    [storageFileId |-> storage_file_id, destinationPath |-> destination,
     size |-> size, checksum |-> checksum]

\* the value returned and the error logged for one response
Answer(storage_file_id, payload, response) ==
    [raised |-> FALSE, exc |-> "none", request |-> Some(payload),
     result |-> IF response = Some(CREATED) THEN PyTrue
                ELSE IF response = None THEN PyNone ELSE PyFalse,
     log |-> IF response = Some(CREATED) THEN None
             ELSE Some([id |-> storage_file_id, status |-> response])]

NoRequest(exc) ==
    [raised |-> TRUE, exc |-> exc, request |-> None, result |-> PyNone, log |-> None]

post_no_except(raw, stripped, size, checksum, response) ==
    IF stripped.raised THEN NoRequest("ValueError")
    ELSE IF response = None
         THEN [raised |-> TRUE, exc |-> "ConnectionError",
               request |-> Some(Payload(stripped.value, stripped.value, size, checksum)),
               result |-> PyNone, log |-> None]
         ELSE Answer(stripped.value,
                     Payload(stripped.value, stripped.value, size, checksum), response)

\* lines 114-135, with storage_file_id already stripped: the stripped id is
\* both storageFileId and destinationPath; an exception of the POST is caught
post(raw, stripped, size, checksum, response) ==
    IF stripped.raised THEN NoRequest("ValueError")
    ELSE Answer(stripped.value,
                Payload(stripped.value, stripped.value, size, checksum), response)

\* the effect of one call: the POST issued, the value returned, the error logged.
\* The URL is stripped before the try block, so its ValueError is not caught.
register_file(storage_file_id, size, checksum, response) ==
    post(storage_file_id, strip_server_url(storage_file_id), size, checksum, response)

-----------------------------------------------------------------------------
(* Field accessors *)

get_access_method(field) == field.indicator1

is_http_access_method_any(field) == TRUE

is_http_access_method(field) == get_access_method(field) = HTTP_ACCESS_METHOD

get_subfield_last(field, subfield_name) ==
    IF field[subfield_name] # <<>>
    THEN Some(field[subfield_name][Len(field[subfield_name])])
    ELSE None

\* the first value of a repeatable subfield, or None
get_subfield(field, subfield_name) ==
    IF field[subfield_name] # <<>> THEN Some(field[subfield_name][1]) ELSE None

get_type(field) == get_subfield(field, "q")

is_accepted_type_present(field) == get_type(field) # None

\* get_type(file_field) in ACCEPTED_TYPES
is_accepted_type(field) ==
    get_type(field) # None /\ InList(get_type(field)[1], ACCEPTED_TYPES)

get_size_zero_default(field) ==
    LET size == get_subfield(field, "s")
    IN IF size # None /\ size[1] # <<>> THEN int(size[1])
       ELSE [raised |-> FALSE, exc |-> "none", value |-> Some(0)]

get_size_lenient(field) ==
    LET size == get_subfield(field, "s")
    IN IF size # None /\ size[1] # <<>> /\ IsIntLiteral(size[1]) THEN int(size[1])
       ELSE [raised |-> FALSE, exc |-> "none", value |-> None]

\* `if size:` is false for None and for the empty string
get_size(field) ==
    LET size == get_subfield(field, "s")
    IN IF size # None /\ size[1] # <<>> THEN int(size[1])
       ELSE [raised |-> FALSE, exc |-> "none", value |-> None]

get_control_number(field) == get_subfield(field, "w")

get_uri(field) == get_subfield(field, "u")

\* control_number.split(';')[1]
parse_md5(control_number) ==
    IF control_number = None
    THEN [raised |-> TRUE, exc |-> "AttributeError", value |-> None]
    ELSE LET parts == Split(control_number[1], ";")
         IN IF Len(parts) < 2
            THEN [raised |-> TRUE, exc |-> "IndexError", value |-> None]
            ELSE [raised |-> FALSE, exc |-> "none", value |-> Some(parts[2])]

get_md5_checksum(field) == parse_md5(get_control_number(field))

-----------------------------------------------------------------------------
(* Fetching a collection *)

\* parse_xml_to_array(f), then records[0] when the list is not empty
download_and_load_marc21_record(document) ==
    IF document # <<>> THEN Some(document[1]) ELSE None

\* collection_record.get_fields('856'), or no value when there is no record
get_file_fields(document) ==
    LET collection_record == download_and_load_marc21_record(document)
    IN IF collection_record # None
       THEN Some(SelectSeq(collection_record[1],
                           LAMBDA f : f.tag = ELECTRONIC_LOCATION_AND_ACCESS))
       ELSE None

-----------------------------------------------------------------------------
(* One iteration of the inner loop, lines 203-209 *)

Skipped ==
    [eligible |-> FALSE, exc |-> "none", request |-> None, response |-> None,
     log |-> None, registered |-> FALSE, size |-> None]

Raised(exc, request, response) ==
    [eligible |-> TRUE, exc |-> exc, request |-> request, response |-> response,
     log |-> None, registered |-> FALSE, size |-> None]

\* lines 205-207 once register_file has returned r; size_again is the second
\* get_size(file_field), of line 206
after_register(r, response, size_again) ==
    IF r.raised THEN Raised(r.exc, r.request, IF r.request # None THEN Some(response) ELSE None)
    ELSE IF Truthy(r.result)
    THEN IF size_again.value = None
         \* total_size += None
         THEN Raised("TypeError", r.request, Some(response))
         ELSE [eligible |-> TRUE, exc |-> "none", request |-> r.request,
               response |-> Some(response), log |-> r.log,
               registered |-> TRUE, size |-> size_again.value]
    ELSE [eligible |-> TRUE, exc |-> "none", request |-> r.request,
          response |-> Some(response), log |-> r.log,
          registered |-> FALSE, size |-> None]

\* line 205: the arguments are evaluated left to right, then the call is made
call_register(uri, size, md5, response, size_again) ==
    IF size.raised THEN Raised(size.exc, None, None)
    ELSE IF md5.raised THEN Raised(md5.exc, None, None)
    ELSE after_register(register_file(uri, size.value, md5.value, response),
                        response, size_again)

field_outcome(file_field, response) ==
    IF ~is_http_access_method(file_field) THEN Skipped
    ELSE IF ~is_accepted_type(file_field) THEN Skipped
    ELSE call_register(get_uri(file_field), get_size(file_field),
                       get_md5_checksum(file_field), response, get_size(file_field))

\* Python's a % n for an integer n other than 0: the result has the sign of n
PyMod(a, n) == IF n > 0 THEN a % n ELSE 0 - ((0 - a) % (0 - n))

should_log_ignoring_count(freq, count) == freq # None /\ freq[1] # 0

\* args.logging_freq and total_count % args.logging_freq == 0 and total_count > 0
should_log(freq, count) ==
    /\ freq # None
    /\ freq[1] # 0
    /\ PyMod(count, freq[1]) = 0
    /\ count > 0

\* the declared size of a field, for the books kept beside the program
DeclaredSize(file_field) ==
    LET size == get_subfield(file_field, "s")
    IN IF size # None /\ IsIntLiteral(size[1]) THEN int(size[1]).value[1] ELSE 0

ProcessField ==
    /\ pc = "fields"
    /\ fi < Len(file_fields)
    /\ \E response \in Responses :
       \E file_field \in {file_fields[fi + 1]} :
       \E o \in {field_outcome(file_field, response)} :
       \E posted \in {o.request # None} :
       \E created \in {posted /\ o.response = Some(Some(CREATED))} :
            /\ judged' = Append(judged, o.eligible)
            /\ requests' = IF posted
                           THEN Append(requests, [src |-> <<ci, fi + 1>>,
                                                  payload |-> o.request[1]])
                           ELSE requests
            /\ responses' = IF posted THEN Append(responses, o.response[1])
                            ELSE responses
            /\ n201' = n201 + (IF created THEN 1 ELSE 0)
            /\ sum201' = sum201 + (IF created THEN DeclaredSize(file_field) ELSE 0)
            /\ errors' = IF o.log # None THEN Append(errors, o.log[1]) ELSE errors
            /\ IF o.exc # "none"
               THEN /\ pc' = "fatal"
                    /\ fatal' = o.exc
                    /\ UNCHANGED <<fi, total_size, total_count, progress>>
               ELSE /\ pc' = "fields"
                    /\ fi' = fi + 1
                    /\ fatal' = fatal
                    /\ IF o.registered
                       THEN /\ total_size' = total_size + o.size[1]
                            /\ total_count' = total_count + 1
                            /\ progress' = IF should_log(logging_freq, total_count + 1)
                                           THEN Append(progress, total_count + 1)
                                           ELSE progress
                       ELSE UNCHANGED <<total_size, total_count, progress>>
    /\ UNCHANGED <<env, logging_freq, collections, ci, file_fields, fetched, summary>>

-----------------------------------------------------------------------------
(* The documents the collection URLs may serve *)

Text1000 == <<"1", "0", "0", "0">>
Text500 == <<"5", "0", "0">>
TextNotANumber == <<"1", "a">>
TextNegative == <<"-", "5">>
TextPlus == <<"+", "5">>
TextEmpty == <<>>

ControlOk == <<"x", ";", "a", "1">>
ControlTwoSeparators == <<"x", ";", "e", ";", "a">>
ControlNoSeparator == <<"x", "a">>
ControlEmptyChecksum == <<"x", ";">>

UriWithScheme == <<"h", "t", "t", "p", "s", ":", "/", "/", "x", "/", "a">>
UriBarePath == <<"/", "a">>

Field(tag, ind1, q, s, u, w) ==
    [tag |-> tag, indicator1 |-> ind1, q |-> q, s |-> s, u |-> u, w |-> w]

LinkField(ind1, q, s, u, w) == Field(ELECTRONIC_LOCATION_AND_ACCESS, ind1, q, s, u, w)

GoodField1 == LinkField("4", <<"MP4">>, <<Text1000>>, <<UriWithScheme>>, <<ControlOk>>)
GoodField2 ==
    LinkField("4", <<"MOV", "AVI">>, <<Text500>>, <<UriBarePath>>, <<ControlTwoSeparators>>)
NonHttpField == LinkField("0", <<"MP4">>, <<TextNotANumber>>, <<UriBarePath>>, <<>>)
LowerCaseTypeField ==
    LinkField("4", <<"mp4">>, <<Text500>>, <<UriBarePath>>, <<ControlNoSeparator>>)
NoSizeField == LinkField("4", <<"MKV">>, <<>>, <<UriBarePath>>, <<ControlOk>>)
BadSizeField ==
    LinkField("4", <<"MP4">>, <<TextNotANumber>>, <<UriBarePath>>, <<ControlOk>>)
NoSeparatorField ==
    LinkField("4", <<"MP4">>, <<Text500>>, <<UriBarePath>>, <<ControlNoSeparator>>)
TitleField == Field("245", "4", <<"MP4">>, <<Text500>>, <<UriBarePath>>, <<ControlOk>>)

PipelinePool ==
    {GoodField1, GoodField2, NonHttpField, LowerCaseTypeField, NoSizeField,
     BadSizeField, NoSeparatorField}

LogPool == {GoodField1, NonHttpField, TitleField}

Indicators == {"4", "0", " ", "7"}
TypeCodes == {"MP4", "MKV", "MOV", "mp4", "MP", "AVI"}

FilterFields ==
    {LinkField(i, q, <<Text500>>, <<UriBarePath>>, <<ControlOk>>) :
        i \in Indicators, q \in SeqsUpTo(TypeCodes, MaxTypes)}

SizeLists ==
    {<<>>, <<TextEmpty>>, <<Text1000>>, <<Text500, TextNotANumber>>, <<TextNotANumber>>,
     <<TextNegative>>, <<TextPlus>>, <<<<"0">>>>}
ControlLists ==
    {<<>>, <<ControlOk>>, <<ControlNoSeparator>>, <<ControlEmptyChecksum>>,
     <<ControlTwoSeparators>>, <<TextEmpty>>, <<ControlOk, ControlNoSeparator>>}

ParseFields ==
    {LinkField(i, <<t>>, s, <<UriWithScheme>>, w) :
        i \in {"4", "0"}, t \in {"MP4", "AVI"}, s \in SizeLists, w \in ControlLists}

UriHeads ==
    {<<>>, <<"t", "e", "l", ":">>, <<"x", ":">>, <<"1", ":">>,
     <<"h", "t", "t", "p", "s", ":">>}
UriTailChars == {"/", "a", ";", "?", "#", "[", ":"}
UriTexts == {h \o t : h \in UriHeads, t \in SeqsUpTo(UriTailChars, MaxUriTail)}

UriFields ==
    {LinkField("4", <<"MP4">>, <<Text500>>, u, <<ControlOk>>) :
        u \in {<<>>} \cup {<<t>> : t \in UriTexts}}

\* a second record of a document, which the program never reads
ExtraRecord == <<GoodField1>>

Records(e) ==
    CASE e = "pipeline" -> SeqsUpTo(PipelinePool, MaxFields)
      [] e = "log" -> SeqsUpTo(LogPool, MaxFields)
      [] e = "fields" -> {<<f>> : f \in FilterFields \cup ParseFields \cup UriFields}

\* what parse_xml_to_array may return: no record, one record, or two
Documents(e) ==
    {<<>>} \cup {<<r>> : r \in Records(e)}
           \cup (IF e = "pipeline" THEN {} ELSE {<<r, ExtraRecord>> : r \in Records(e)})

-----------------------------------------------------------------------------
(* The outer loop, lines 199-212 *)

EnterCollection ==
    /\ pc = "collections"
    /\ ci < Len(collections)
    /\ ci' = ci + 1
    /\ UNCHANGED <<env, logging_freq, collections, fi, total_size, total_count,
                   requests, responses, errors, judged, n201, sum201, progress,
                   summary>>

\* urlopen or parse_xml_to_array raises
FetchFails ==
    /\ EnterCollection
    /\ fetched' = "error"
    /\ file_fields' = <<>>
    /\ pc' = "fatal"
    /\ fatal' = "URLError"

\* the document is read and parsed; iterating no value is a TypeError
FetchCollection ==
    /\ EnterCollection
    /\ \E document \in Documents(env) :
         LET fields == get_file_fields(document)
         IN /\ fetched' = IF document = <<>> THEN "norecord" ELSE "record"
            /\ IF fields = None
               THEN /\ file_fields' = <<>>
                    /\ pc' = "fatal"
                    /\ fatal' = "TypeError"
               ELSE /\ file_fields' = fields[1]
                    /\ pc' = "fields"
                    /\ fatal' = fatal

\* the inner loop has run out of fields; what it leaves behind is never read
\* again, and the books kept per collection are closed
EndFields ==
    /\ pc = "fields"
    /\ fi = Len(file_fields)
    /\ pc' = "collections"
    /\ file_fields' = <<>>
    /\ fi' = 0
    /\ fetched' = "nothing"
    /\ requests' = <<>>
    /\ responses' = <<>>
    /\ errors' = <<>>
    /\ judged' = <<>>
    /\ UNCHANGED <<env, logging_freq, collections, ci, fatal, total_size,
                   total_count, n201, sum201, progress, summary>>

\* lines 211-212
PrintTotals ==
    /\ pc = "collections"
    /\ ci = Len(collections)
    /\ summary' = Some(<<total_count, total_size>>)
    /\ pc' = "done"
    /\ UNCHANGED <<env, logging_freq, collections, ci, file_fields, fi, fatal,
                   fetched, total_size, total_count, requests, responses, errors,
                   judged, n201, sum201, progress>>

Next == FetchFails \/ FetchCollection \/ ProcessField \/ EndFields \/ PrintTotals

-----------------------------------------------------------------------------
(* Specifications *)

Frequencies == {None, Some(0), Some(1), Some(2), Some(3), Some(0 - 1)}

InitWith(e, freqs, ncollections) ==
    /\ env = e
    /\ logging_freq \in freqs
    /\ collections \in {[k \in 1..n |-> k] : n \in ncollections}
    /\ ci = 0
    /\ file_fields = <<>>
    /\ fi = 0
    /\ pc = "collections"
    /\ fatal = "none"
    /\ fetched = "nothing"
    /\ total_size = 0
    /\ total_count = 0
    /\ requests = <<>>
    /\ responses = <<>>
    /\ errors = <<>>
    /\ judged = <<>>
    /\ n201 = 0
    /\ sum201 = 0
    /\ progress = <<>>
    /\ summary = None

\* the pipeline over documents of a few fields each
Init == InitWith("pipeline", {None, Some(2)}, 1..MaxCollections)
Spec == Init /\ [][Next]_vars

\* the pipeline with every logging frequency
InitLog == InitWith("log", Frequencies, 1..MaxCollections)
SpecLog == InitLog /\ [][Next]_vars

\* the pipeline over documents of one field, drawn from the accessors' inputs
InitFields == InitWith("fields", {None}, {1})
SpecFields == InitFields /\ [][Next]_vars

-----------------------------------------------------------------------------
(* What the claims say about a field, read off the field itself *)

SaysEligible(f) ==
    /\ f.indicator1 = "4"
    /\ f.q # <<>>
    /\ f.q[1] \in {"MP4", "MKV", "MOV"}

SizeAbsent(f) == f.s = <<>> \/ f.s[1] = <<>>
SizeMalformed(f) == ~SizeAbsent(f) /\ ~IsIntLiteral(f.s[1])
ControlMalformed(f) == f.w = <<>> \/ ~Contains(f.w[1], ";")
UriMalformed(f) == f.u # <<>> /\ urlparse(f.u[1]).raised

Last(s) == s[Len(s)]

\* the field the inner loop is about to process
AtField == pc = "fields" /\ fi < Len(file_fields)
Current == file_fields[fi + 1]

\* this step issued one POST
Posted == Len(requests') = Len(requests) + 1

TotalsUnchanged == total_count' = total_count /\ total_size' = total_size

\* an uncaught exception ends the run: nothing changes afterwards
FatalIsFinal == pc = "fatal" => UNCHANGED vars

\* the positions, in order, of the eligible fields among the first n
RECURSIVE EligibleSources(_, _, _)
EligibleSources(fields, n, c) ==
    IF n = 0 THEN <<>>
    ELSE EligibleSources(fields, n - 1, c)
         \o (IF SaysEligible(fields[n]) THEN <<(<<c, n>>)>> ELSE <<>>)

-----------------------------------------------------------------------------
(* C1: in every state total_count is the number of POSTs answered 201 and
   total_size the sum of the declared sizes of those fields; a non-201 answer
   or a transport exception changes neither, and neither ever decreases. *)
C1_TotalsAreConfirmedSuccesses ==
    /\ [](total_count = n201 /\ total_size = sum201)
    /\ [][/\ total_count' >= total_count
          /\ total_size' >= total_size
          /\ (Posted /\ Last(responses') # Some(CREATED)) => TotalsUnchanged]_vars

(* C2: as long as the run has met no fatal error, the POSTs issued in a
   collection are exactly its eligible fields so far, one POST per occurrence
   and in source order, each made in the collection being processed. *)
C2_PostsAreEligibleFieldsInOrder ==
    pc # "fatal" =>
        /\ Len(requests) = Len(responses)
        /\ [k \in 1..Len(requests) |-> requests[k].src]
             = EligibleSources(file_fields, fi, ci)

\* the same eligible field twice in the second collection: two POSTs
C2_Witness ==
    /\ pc = "fields"
    /\ ci = 2
    /\ fi = 2
    /\ file_fields[1] = file_fields[2]
    /\ Len(requests) = 2
    /\ requests[1].payload = requests[2].payload

(* C3: a field is judged eligible exactly when its first indicator is '4' and
   the first value of its q subfield is one of MP4, MKV, MOV. *)
C3_EligibleIffHttpAndAcceptedType ==
    /\ Len(judged) \in {fi, fi + 1}
    /\ \A k \in 1..Len(judged) : judged[k] = SaysEligible(file_fields[k])

\* an accepted type that is only the second value of q does not count
C3_Witness ==
    /\ Len(judged) = 1
    /\ file_fields[1].indicator1 = "4"
    /\ file_fields[1].q = <<"AVI", "MP4">>
    /\ judged[1] = FALSE

(* C4: a POST answered with a status other than 201, or ended by a transport
   exception, is logged with the file id and the status, changes no total and
   leaves the loop at the next field, which is a field of the list or its
   end; a finished run has printed the totals. *)
C4_RegistrationFailureIsRecovered ==
    /\ [][(Posted /\ Last(responses') # Some(CREATED)) =>
            /\ pc' = "fields"
            /\ fi' = fi + 1
            /\ fi' <= Len(file_fields')
            /\ ci' = ci
            /\ TotalsUnchanged
            /\ Len(errors') = Len(errors) + 1
            /\ Last(errors').id = Last(requests').payload.storageFileId
            /\ Last(errors').status = Last(responses')]_vars
    /\ [](pc = "done" => summary = Some(<<total_count, total_size>>))

\* in the second collection: a transport exception, then the next field
\* registered
C4_Witness ==
    /\ pc = "fields"
    /\ ci = 2
    /\ Len(responses) = 2
    /\ responses[1] = None
    /\ responses[2] = Some(CREATED)
    /\ Len(errors) = 1
    /\ total_count >= 1

(* C5: an eligible field whose size is not a number or whose control number
   is missing or has no ';', and a failed document fetch, end the whole run:
   no POST is issued for that field, nothing is processed afterwards and the
   final summary is never printed. *)
C5_ParseAndFetchErrorsAreFatal ==
    /\ [][(AtField /\ SaysEligible(Current)
                   /\ (SizeMalformed(Current) \/ ControlMalformed(Current))) =>
            /\ pc' = "fatal"
            /\ fatal' \in {"ValueError", "IndexError", "AttributeError"}
            /\ requests' = requests
            /\ TotalsUnchanged
            /\ ci' = ci /\ fi' = fi]_vars
    /\ [][fetched' = "error" => pc' = "fatal"]_vars
    /\ [][FatalIsFinal]_vars
    /\ [](pc = "fatal" => summary = None)

\* a size that is not a number, after a registration and with a collection
\* still to come
C5_Witness ==
    /\ pc = "fatal"
    /\ fatal = "ValueError"
    /\ total_count >= 1
    /\ ci < Len(collections)
    /\ summary = None

(* C6: a document with no record yields an empty list of fields, and the run
   goes on to the next collection without a fatal error. *)
C6_AbsentRecordIsTolerated ==
    fetched = "norecord" => (pc # "fatal" /\ file_fields = <<>>)

(* C7: with logging frequency N the progress lines are exactly those of the
   counts N, 2N, ..., floor(total_count / N) of them; with none configured
   (or 0) there is no line; a step that registers nothing prints none. *)
C7_ProgressEveryNSuccesses ==
    /\ [](IF logging_freq = None \/ logging_freq = Some(0) THEN progress = <<>>
          ELSE \E q \in (0 - total_count)..total_count :
                 /\ \/ logging_freq[1] > 0 /\ q * logging_freq[1] <= total_count
                                          /\ total_count < (q + 1) * logging_freq[1]
                    \/ logging_freq[1] < 0 /\ q * logging_freq[1] >= total_count
                                          /\ total_count > (q + 1) * logging_freq[1]
                 /\ Len(progress) = q
                 /\ \A i \in 1..Len(progress) : progress[i] = i * logging_freq[1])
    /\ [][total_count' = total_count => progress' = progress]_vars

Abs(n) == IF n < 0 THEN 0 - n ELSE n

(* C7, amended: the period of the progress lines is the absolute value of the
   configured frequency: the lines are those of the counts |N|, 2|N|, ...,
   floor(total_count / |N|) of them; with no frequency, or 0, there is none;
   a step that registers nothing prints none. *)
C7_ProgressEveryAbsNSuccesses ==
    /\ [](IF logging_freq = None \/ logging_freq = Some(0) THEN progress = <<>>
          ELSE /\ Len(progress) = total_count \div Abs(logging_freq[1])
               /\ \A i \in 1..Len(progress) : progress[i] = i * Abs(logging_freq[1]))
    /\ [][total_count' = total_count => progress' = progress]_vars

\* frequency 1 and two registrations: the lines of 1 and of 2
C7_Witness ==
    /\ logging_freq = Some(1)
    /\ total_count = 2
    /\ progress = <<1, 2>>

(* C8: in every request storageFileId and destinationPath are equal, and are
   the URI's path component when the URI has a scheme (never the URI itself)
   and the URI unchanged when it has none; stripping a scheme-less id again
   changes nothing. *)
C8_FileIdIsStrippedUri ==
    \A k \in 1..Len(requests) :
      \E p \in {requests[k].payload} : \E f \in {file_fields[requests[k].src[2]]} :
        /\ p.storageFileId = p.destinationPath
        /\ f.u = <<>> => p.storageFileId = None
        /\ f.u # <<>> =>
             \E parsed \in {urlparse(f.u[1])} :
               /\ ~parsed.raised
               /\ IF parsed.scheme # <<>>
                  THEN p.storageFileId = Some(parsed.path) /\ p.storageFileId # f.u
                  ELSE /\ p.storageFileId = Some(f.u[1])
                       /\ strip_server_url(p.storageFileId).value = p.storageFileId

\* https:/a;  is registered as /a
C8_Witness ==
    /\ Len(requests) = 1
    /\ file_fields[1].u = << <<"h", "t", "t", "p", "s", ":", "/", "a", ";">> >>
    /\ requests[1].payload.storageFileId = Some(<<"/", "a">>)
    /\ requests[1].payload.destinationPath = Some(<<"/", "a">>)

(* C9: an eligible field without a size is POSTed with size null; answered
   201, the run ends there with a TypeError and neither total changed;
   answered otherwise, the run goes on to the next field. *)
C9_AbsentSizeIsFatalOnlyOnSuccess ==
    /\ [][(AtField /\ SaysEligible(Current) /\ SizeAbsent(Current)
                   /\ ~ControlMalformed(Current) /\ ~UriMalformed(Current)) =>
            /\ Posted
            /\ Last(requests').payload.size = None
            /\ TotalsUnchanged
            /\ IF Last(responses') = Some(CREATED)
               THEN pc' = "fatal" /\ fatal' = "TypeError" /\ fi' = fi
               ELSE pc' = "fields" /\ fi' = fi + 1]_vars
    /\ [][FatalIsFinal]_vars

\* registered by the server, counted by nobody
C9_Witness ==
    /\ pc = "fatal"
    /\ fatal = "TypeError"
    /\ requests # <<>>
    /\ Last(requests).payload.size = None
    /\ Last(responses) = Some(CREATED)
    /\ n201 = total_count + 1

(* C10: a field that is not eligible never ends the run and gets no POST,
   whatever its size and control number; a parse error ends the run only at
   an eligible field, and before any POST for it. *)
C10_ParseErrorsOnlyAtEligibleFields ==
    [][AtField =>
         /\ ~SaysEligible(Current) =>
              (pc' = "fields" /\ fi' = fi + 1 /\ requests' = requests)
         /\ (pc' = "fatal" /\ fatal' \in {"ValueError", "IndexError", "AttributeError"}) =>
              (SaysEligible(Current) /\ requests' = requests)]_vars

\* an ineligible field with a malformed size or control number has been passed
C10_Witness ==
    /\ pc = "fields"
    /\ fi >= 1
    /\ ~SaysEligible(file_fields[fi])
    /\ SizeMalformed(file_fields[fi])
    /\ ControlMalformed(file_fields[fi])

====
